---- MODULE Spec2Model ----
(***************************************************************************)
(* vhosts-sieve: a three stage pipeline (DomainsResolver, IpsScanner,      *)
(* VhostsFinder) run by Pool.map over a thread pool, and the per-service   *)
(* vhost discrimination procedure VhostsFinder._find_service_vhosts.       *)
(*                                                                         *)
(* Two specifications share the definitions below:                         *)
(*   SpecFind  one call of _find_service_vhosts, one HTTP request a step,  *)
(*             against a server that may answer every request in any way;  *)
(*   Spec      main(): the three Pool.map calls and Results.save, the jobs *)
(*             of a stage interleaved over threads_number worker threads.  *)
(***************************************************************************)
EXTENDS Integers, Sequences, FiniteSets, TLC

\* ------------------------------------------------------------------------
\* Bounds of the model
\* ------------------------------------------------------------------------

\* Number of vhost candidates handed to one _find_service_vhosts call in
\* SpecFind (more than both series limits, so that a series can overflow
\* before the list is exhausted).
NumCandidates == 10

\* options['threads_number'] in Spec.
NumThreads == 2

\* Number of orders explored of a list whose order is random.
MaxRotations == 2

\* Number of worker threads that probe by name in SpecNames.
NumWorkers == 2

\* Number of calls of GetAddrInfoWrapper.register() in SpecRegister.
MaxRegisterCalls == 2

\* Length of the longest response body in SpecSimilar.
MaxBodyLen == 6
MaxJobs == 3

\* ------------------------------------------------------------------------
\* Program constants
\* ------------------------------------------------------------------------

ERROR_SERIES_LENGTH_LIMIT == 8
VALID_VHOSTS_SERIES_LENGTH_LIMIT == 8

\* Python's None, and the exception HttpClient.get_response raises.
None == [py |-> "None"]
HttpClientError == [raised |-> "HttpClient.Error"]

\* ------------------------------------------------------------------------
\* Helpers
\* ------------------------------------------------------------------------

Range(s) == {s[i] : i \in DOMAIN s}

Min(a, b) == IF a <= b THEN a ELSE b

MaxOf(S) == CHOOSE k \in S : \A m \in S : m <= k
MinOf(S) == CHOOSE k \in S : \A m \in S : k <= m

\* filter_not_none(iterable)
filter_not_none(iterable) == SelectSeq(iterable, LAMBDA x : x # None)

\* The list rotated left by r places, and its first MaxRotations rotations.
Rotation(s, r) == [i \in 1..Len(s) |-> s[((i - 1 + r) % Len(s)) + 1]]
Rotations(s) ==
    IF Len(s) = 0 THEN {<<>>}
    ELSE {Rotation(s, r) : r \in 0..(Min(Len(s), MaxRotations) - 1)}

\* random.sample(values, k): k elements at distinct positions of values, in
\* any order. The samples explored are the first k elements of the first
\* rotations of values (every arrangement when values has up to 2 elements).
random_sample(values, k) == {SubSeq(r, 1, k) : r \in Rotations(values)}

\* get_random_items(values, length): the lists it may return. length = -1
\* means the whole list; otherwise min(length, len(values)) elements.
sample_length(values, length) ==
    IF length = -1 THEN Len(values) ELSE Min(length, Len(values))
get_random_items(values, length) ==
    random_sample(values, sample_length(values, length))

\* The elements of values, each once, in the order of first occurrence.
RECURSIVE FirstOccurrences(_)
FirstOccurrences(values) ==
    IF Len(values) = 0 THEN <<>>
    ELSE IF values[Len(values)]
              \in Range(SubSeq(values, 1, Len(values) - 1))
    THEN FirstOccurrences(SubSeq(values, 1, Len(values) - 1))
    ELSE Append(FirstOccurrences(SubSeq(values, 1, Len(values) - 1)),
                values[Len(values)])

\* get_unique_list(values) = list(set(values)): the lists it may return,
\* each element once in an order the set decides (here the rotations of the
\* order of first occurrence).
get_unique_list(values) == Rotations(FirstOccurrences(values))

\* ------------------------------------------------------------------------
\* HttpResponse and its similarity
\* ------------------------------------------------------------------------

\* Length of the common run of a and b starting at offsets i and j (0-based),
\* kept inside a[..ahi) and b[..bhi).
RunLength(a, b, i, ahi, j, bhi) ==
    MaxOf({k \in 0..Min(ahi - i, bhi - j) : \A t \in 1..k : a[i + t] = b[j + t]})

\* Among the blocks hits, all of the same size, the one starting earliest
\* in a, and among those the one starting earliest in b.
EarliestIn(hits, i, size) ==
    <<i, MinOf({p[2] : p \in {q \in hits : q[1] = i}}), size>>
EarliestBlock(hits, size) ==
    EarliestIn(hits, MinOf({p[1] : p \in hits}), size)

\* The longest matching block <<i, j, k>> among the start pairs, of size
\* best; <<alo, blo, 0>> when nothing matches.
BlockOfSize(a, b, pairs, alo, ahi, blo, bhi, best) ==
    IF best = 0 THEN <<alo, blo, 0>>
    ELSE EarliestBlock({p \in pairs :
                          RunLength(a, b, p[1], ahi, p[2], bhi) = best}, best)

BestSize(a, b, pairs, ahi, bhi) ==
    IF pairs = {} THEN 0
    ELSE MaxOf({RunLength(a, b, p[1], ahi, p[2], bhi) : p \in pairs})

\* SequenceMatcher.find_longest_match(alo, ahi, blo, bhi)
find_longest_match(a, b, alo, ahi, blo, bhi) ==
    BlockOfSize(a, b, (alo..(ahi - 1)) \X (blo..(bhi - 1)), alo, ahi, blo, bhi,
                BestSize(a, b, (alo..(ahi - 1)) \X (blo..(bhi - 1)), ahi, bhi))

\* Total size of SequenceMatcher.get_matching_blocks(): the longest block m,
\* then the same to its left and to its right.
RECURSIVE matching_blocks_size(_, _, _, _, _, _)
SizeAround(a, b, alo, ahi, blo, bhi, m) ==
    IF m[3] = 0 THEN 0
    ELSE m[3]
         + (IF alo < m[1] /\ blo < m[2]
            THEN matching_blocks_size(a, b, alo, m[1], blo, m[2]) ELSE 0)
         + (IF m[1] + m[3] < ahi /\ m[2] + m[3] < bhi
            THEN matching_blocks_size(a, b, m[1] + m[3], ahi, m[2] + m[3], bhi)
            ELSE 0)
matching_blocks_size(a, b, alo, ahi, blo, bhi) ==
    SizeAround(a, b, alo, ahi, blo, bhi,
               find_longest_match(a, b, alo, ahi, blo, bhi))

\* SequenceMatcher(None, a, b).ratio() >= 0.8, with ratio = 2.0 * M / T and
\* 1.0 when T = 0.
ratio_at_least_08(a, b) ==
    IF Len(a) + Len(b) = 0 THEN TRUE
    ELSE 10 * matching_blocks_size(a, b, 0, Len(a), 0, Len(b))
            >= 4 * (Len(a) + Len(b))

\* HttpResponse.is_similar(self, response)
SimilarIgnoringLocation(self, response) ==
    IF self.status_code # response.status_code THEN FALSE
    ELSE ratio_at_least_08(self.body, response.body)
is_similar(self, response) ==
    IF self.status_code # response.status_code THEN FALSE
    ELSE IF self.location # response.location THEN FALSE
    ELSE ratio_at_least_08(self.body, response.body)

\* The responses the probed server answers with in SpecFind: the body of
\* the second is at ratio 0.8 from the first, the third has another status.
Body404 == <<"n", "o", "t", " ", "f">>
Body404b == <<"n", "o", "t", " ", "x">>
Body200 == <<"w", "e", "l">>
Responses ==
    { [status_code |-> 404, location |-> "", body |-> Body404],
      [status_code |-> 404, location |-> "", body |-> Body404b],
      [status_code |-> 200, location |-> "", body |-> Body200] }

\* What one HttpClient.get_response call ends in.
Outcomes == Responses \cup {HttpClientError}

\* is_similar over Responses, computed once: the pairs it holds of.
SimilarPairs ==
    UNION {IF is_similar(p[1], p[2]) THEN {p} ELSE {} :
              p \in Responses \X Responses}

\* response.is_similar(reference_response) as the procedure calls it.
Similar(response, reference_response) ==
    <<response, reference_response>> \in SimilarPairs

\* ------------------------------------------------------------------------
\* State
\* ------------------------------------------------------------------------

VARIABLES
    find,               \* one call of _find_service_vhosts (SpecFind)
    options,            \* the global options
    main_pc,            \* where main() is
    jobs,               \* per job class, the jobs handed to its executor
    tracker,            \* the ProgressTracker instance
    resolved_domains,   \* main's resolved_domains
    scanned_ips,        \* main's scanned_ips
    main_vhosts,        \* main's vhosts
    output_file,        \* options['output_file']
    find_log,           \* every return of _find_service_vhosts, by service
    dns_log,            \* what the resolver did for each domain asked
    wrapper,            \* GetAddrInfoWrapper and socket.getaddrinfo (SpecNames)
    threads,            \* the worker threads that probe by name (SpecNames)
    compared,           \* two responses and what is_similar says (SpecSimilar)
    scan,               \* one call of IpsScanner.get_result (SpecScan)
    pool                \* one Pool.map with its worker threads (SpecProgress)

pipeline_vars ==
    <<options, main_pc, jobs, tracker, resolved_domains, scanned_ips,
      main_vhosts, output_file, find_log, dns_log>>

sni_vars == <<wrapper, threads>>

vars == <<find, pipeline_vars, sni_vars, compared, scan, pool>>

\* ------------------------------------------------------------------------
\* VhostsFinder._find_service_vhosts
\* ------------------------------------------------------------------------

\* The two labels of get_random_vhost() used for the baseline.
random_vhost1 == "random_vhost1"
random_vhost2 == "random_vhost2"

\* The vhost candidates of SpecFind: candidate names c1 .. cN as numbers.
FindCandidates == [i \in 1..NumCandidates |-> i]

\* The orders of the candidate loop SpecFind explores: the list as it is and
\* reversed, two of the lists get_random_items(candidates, -1) may return.
Reverse(s) == [i \in 1..Len(s) |-> s[Len(s) + 1 - i]]
OrdersWithReplacement(candidates) ==
    {candidates, [i \in DOMAIN candidates |-> candidates[1]]}
LoopOrders(candidates) == {candidates, Reverse(candidates)}

\* HttpClient(self._ip, service): its requests.Session() is open. The
\* locals of the procedure at its start. requests, baseline and probes
\* are a log of the calls of get_response: the names asked for, what the
\* server did at the baseline requests, and what it did at each candidate
\* probe: <<"error", 0>>, <<"similar", status>> or <<"valid", status>> (a
\* response that is not similar to the reference). log_writes tells, probe
\* by probe, what became of the log file of the response.
HttpClient == [session |-> "open"]
FindStart(candidates) ==
    [ pc |-> "baseline1",
      vhost_candidates |-> candidates,
      http_client |-> HttpClient,
      reference_response |-> None,
      order |-> <<>>,
      iterations |-> 0,
      error_series_length |-> 0,
      valid_vhosts_series_length |-> 0,
      stopped |-> FALSE,
      vhosts |-> <<>>,
      result |-> None,
      requests |-> <<>>,
      baseline |-> <<>>,
      probes |-> <<>>,
      log_writes |-> <<>> ]

\* What the server did at a request, for the log.
ProbeKind(outcome, reference_response) ==
    IF outcome = HttpClientError THEN <<"error", 0>>
    ELSE IF Similar(outcome, reference_response)
    THEN <<"similar", outcome.status_code>>
    ELSE <<"valid", outcome.status_code>>

\* return vhosts, stopped
FindReturn(st, vhosts, stopped) ==
    [st EXCEPT !.pc = "returned",
               !.result = [vhosts |-> vhosts, stopped |-> stopped]]

\* except VhostsFinder.HttpClient.Error: return [], True
AbandonDroppingStopped(st) == FindReturn(st, <<>>, FALSE)
FindAbandon(st) == FindReturn(st, <<>>, TRUE)

\* reference_response = http_client.get_response(random_vhost1)
Baseline1Request(st, outcome) ==
    [st EXCEPT
        !.requests = Append(@, random_vhost1),
        !.baseline = Append(@, IF outcome = HttpClientError
                               THEN "error" ELSE "answered")]
Baseline1Outcome(st, outcome) ==
    IF outcome = HttpClientError
    THEN FindAbandon(st)
    ELSE [st EXCEPT !.pc = "baseline2", !.reference_response = outcome]
FindBaseline1(st, outcome) ==
    Baseline1Outcome(Baseline1Request(st, outcome), outcome)

\* http_client.get_response(random_vhost2).is_similar(reference_response)
AnyBaselineAccepted(response, reference_response) == TRUE
baseline_is_similar(response, reference_response) ==
    Similar(response, reference_response)

\* The second baseline request, and the start of the loop over
\* get_random_items(self._vhost_candidates, -1), here order.
Baseline2Request(st, outcome) ==
    [st EXCEPT
        !.requests = Append(@, random_vhost2),
        !.baseline = Append(@, ProbeKind(outcome, st.reference_response)[1])]
Baseline2Outcome(st, outcome, order) ==
    IF outcome = HttpClientError
    THEN FindAbandon(st)
    ELSE IF ~baseline_is_similar(outcome, st.reference_response)
    THEN FindReturn(st, <<>>, TRUE)
    ELSE IF Len(order) = 0
    THEN FindReturn([st EXCEPT !.order = order], <<>>, FALSE)
    ELSE [st EXCEPT !.pc = "loop", !.order = order]
FindBaseline2(st, outcome, order) ==
    Baseline2Outcome(Baseline2Request(st, outcome), outcome, order)

\* The candidates of SpecFind for whose log file open(..., 'w') raises
\* OSError.
UnwritableCandidates == {1, 2}

\* if options['logs_dir']: the response is written to its log file, and an
\* OSError of the writing goes to Logger.error.
log_response(logs_dir, vhost_candidate) ==
    IF logs_dir = None THEN "skipped"
    ELSE IF vhost_candidate \in UnwritableCandidates THEN "OSError"
    ELSE "written"

\* return '%s %d' % (vhost_candidate, response.get_status_code()), False
\* after the logging. A finding holds the two fields of the string.
FindingLostOnLogError(vhost_candidate, response, logged) ==
    IF logged = "OSError" THEN <<None, FALSE>>
    ELSE <<[vhost |-> vhost_candidate, status_code |-> response.status_code],
           FALSE>>
return_finding(vhost_candidate, response, logged) ==
    <<[vhost |-> vhost_candidate, status_code |-> response.status_code],
      FALSE>>

\* _check_vhost_candidate: <<vhost, error>> for the outcome of the request.
check_vhost_candidate(vhost_candidate, outcome, reference_response) ==
    IF outcome = HttpClientError THEN <<None, TRUE>>
    ELSE IF Similar(outcome, reference_response) THEN <<None, FALSE>>
    ELSE return_finding(vhost_candidate, outcome,
                        log_response(options.logs_dir, vhost_candidate))

\* error_series_length > self._ERROR_SERIES_LENGTH_LIMIT
ErrorSeriesAtLimit(length) == length >= ERROR_SERIES_LENGTH_LIMIT
error_series_exceeded(length) == length > ERROR_SERIES_LENGTH_LIMIT

\* valid_vhosts_series_length > self._VALID_VHOSTS_SERIES_LENGTH_LIMIT
valid_series_exceeded(length) == length > VALID_VHOSTS_SERIES_LENGTH_LIMIT

\* The findings the loop hands to return vhosts, stopped.
NoVhostsWhenStopped(vhosts, stopped) == IF stopped THEN <<>> ELSE vhosts
returned_vhosts(vhosts, stopped) == vhosts

\* What became of the log file of a probe: none is due unless the response
\* is not similar to the reference.
LogWrite(vhost_candidate, outcome, reference_response) ==
    IF ProbeKind(outcome, reference_response)[1] = "valid"
    THEN log_response(options.logs_dir, vhost_candidate)
    ELSE "none"

\* The request of a loop iteration, logged.
LoopRequest(st, outcome) ==
    [st EXCEPT
        !.requests = Append(@, st.order[st.iterations + 1]),
        !.probes = Append(@, ProbeKind(outcome, st.reference_response)),
        !.log_writes = Append(@, LogWrite(st.order[st.iterations + 1],
                                          outcome, st.reference_response)),
        !.iterations = @ + 1]

\* if vhost: ... else: valid_vhosts_series_length = 0
LoopVhostKeepingSeries(st, vhost) ==
    IF vhost # None
    THEN [st EXCEPT
            !.vhosts = Append(@, vhost),
            !.valid_vhosts_series_length = @ + 1,
            !.stopped = valid_series_exceeded(
                            st.valid_vhosts_series_length + 1)]
    ELSE st
LoopVhost(st, vhost) ==
    IF vhost # None
    THEN [st EXCEPT
            !.vhosts = Append(@, vhost),
            !.valid_vhosts_series_length = @ + 1,
            !.stopped = valid_series_exceeded(
                            st.valid_vhosts_series_length + 1)]
    ELSE [st EXCEPT !.valid_vhosts_series_length = 0]

\* if error: ... else: error_series_length = 0, and what follows it unless
\* the error series breaks the loop.
LoopError(st, vhost, error) ==
    IF error /\ error_series_exceeded(st.error_series_length + 1)
    THEN [st EXCEPT !.error_series_length = @ + 1, !.stopped = TRUE]
    ELSE LoopVhost([st EXCEPT !.error_series_length =
                                  IF error THEN @ + 1 ELSE 0], vhost)

\* The loop goes on unless it was broken or the list is exhausted; then
\* return vhosts, stopped.
LoopExit(st) ==
    IF st.stopped \/ st.iterations = Len(st.order)
    THEN FindReturn(st, returned_vhosts(st.vhosts, st.stopped), st.stopped)
    ELSE st

LoopBody(st, checked) == LoopExit(LoopError(st, checked[1], checked[2]))

\* One iteration of the candidate loop, with the return that follows the
\* last iteration or a break.
FindLoopStep(st, outcome) ==
    LoopBody(LoopRequest(st, outcome),
             check_vhost_candidate(st.order[st.iterations + 1], outcome,
                                   st.reference_response))

\* _find_service_vhosts run to its return against a server that answers
\* the request for name with profile[name], the loop going over order.
RECURSIVE RunLoop(_, _)
RunLoop(st, profile) ==
    IF st.pc = "returned" THEN st
    ELSE RunLoop(FindLoopStep(st, profile[st.order[st.iterations + 1]]),
                 profile)
find_service_vhosts(candidates, order, profile) ==
    RunLoop(FindBaseline2(FindBaseline1(FindStart(candidates),
                                        profile[random_vhost1]),
                          profile[random_vhost2], order),
            profile).result

\* ------------------------------------------------------------------------
\* The world of the pipeline (Spec): the domains file, what the DNS, the
\* ports and the HTTP servers may answer
\* ------------------------------------------------------------------------

\* The lines of the domains file: text and line end. One domain is listed
\* twice and one line is blank.
DomainsFile ==
    << [text |-> "a.test", eol |-> "\n"],
       [text |-> "", eol |-> "\n"],
       [text |-> "b.test", eol |-> "\n"],
       [text |-> "a.test", eol |-> "\n"],
       [text |-> "c.test", eol |-> "\n"] >>

Domains == {l.text : l \in Range(DomainsFile)} \ {""}

\* IPv4 addresses, as their four octets.
PublicIp1 == <<93, 184, 216, 34>>
PublicIp2 == <<8, 8, 8, 8>>
PrivateIp == <<10, 0, 0, 1>>

\* What dns.resolver.resolve(domain, 'A') may do: raise, or answer. In this
\* world a.test may have public addresses (beside a private one, or two of
\* them), b.test a private or a public one, c.test a private one only.
DnsRaises == [raised |-> TRUE, answers |-> <<>>]
DnsAnswers(answers) == [raised |-> FALSE, answers |-> answers]
DnsOutcomes(domain) ==
    IF domain = "a.test"
    THEN {DnsRaises, DnsAnswers(<<PrivateIp, PublicIp1>>),
          DnsAnswers(<<PublicIp2, PublicIp1>>)}
    ELSE IF domain = "b.test"
    THEN {DnsRaises, DnsAnswers(<<PrivateIp>>), DnsAnswers(<<PublicIp1>>)}
    ELSE {DnsRaises, DnsAnswers(<<PrivateIp>>)}

\* What a port may do: refuse the connection, or accept it and then answer
\* over https, answer over http only, or answer neither. In this world port
\* 443 speaks https or nothing and the other ports speak http at most.
PortOutcomes(port) ==
    IF port = 443 THEN {"refused", "https", "no_http"}
    ELSE {"refused", "http"}
PortsOutcomes(ports) ==
    {o \in [1..Len(ports) -> {"refused", "https", "http", "no_http"}] :
        \A i \in 1..Len(ports) : o[i] \in PortOutcomes(ports[i])}

\* options['logs_dir']: None without --logs-dir, else the path given.
LogsDirs == {None, [path |-> "logs"]}

\* The options main() may run with: no cap, or one of the caps set.
Ports == <<80, 443>>
OptionChoices ==
    {[max_domains |-> d, max_ips |-> i, max_vhost_candidates |-> c,
      ports |-> Ports, threads_number |-> NumThreads,
      sni_enabled |-> FALSE, logs_dir |-> None] :
        <<d, i, c>> \in {<<-1, -1, -1>>, <<2, -1, -1>>, <<-1, 1, -1>>,
                         <<-1, -1, 1>>}}

\* The HTTP servers of Spec, as what they answer to a request by name.
Names == Domains \cup {random_vhost1, random_vhost2}
Response404 == [status_code |-> 404, location |-> "", body |-> Body404]
Response404b == [status_code |-> 404, location |-> "", body |-> Body404b]
Response200 == [status_code |-> 200, location |-> "", body |-> Body200]
ServerDown == [n \in Names |-> HttpClientError]
ServerNoisy ==
    [n \in Names |-> IF n = random_vhost1 THEN Response404 ELSE Response200]
ServerFlat == [n \in Names |-> Response404]
ServerHosting(d) ==
    [n \in Names |-> IF n = d THEN Response200
                     ELSE IF n = random_vhost1 THEN Response404
                     ELSE Response404b]
HostedDomain == "b.test"
ServerProfiles ==
    {ServerDown, ServerNoisy, ServerFlat, ServerHosting(HostedDomain)}

\* ------------------------------------------------------------------------
\* DomainsResolver
\* ------------------------------------------------------------------------

\* line.strip()
strip(line) == line.text

\* The non-empty stripped lines of the file, in order.
RECURSIVE read_domains(_)
read_domains(lines) ==
    IF Len(lines) = 0 THEN <<>>
    ELSE IF strip(lines[Len(lines)]) # ""
    THEN Append(read_domains(SubSeq(lines, 1, Len(lines) - 1)),
                strip(lines[Len(lines)]))
    ELSE read_domains(SubSeq(lines, 1, Len(lines) - 1))

\* DomainsResolver.get_args_list(): the lists it may return.
DomainsResolver_get_args_list(opts) ==
    UNION {get_random_items(u, opts.max_domains) :
              u \in get_unique_list(read_domains(DomainsFile))}

\* ipaddress.ip_address(ip).is_private for an IPv4 address
is_private(ip) ==
    \/ ip[1] \in {0, 10, 127}
    \/ ip[1] = 169 /\ ip[2] = 254
    \/ ip[1] = 172 /\ ip[2] \in 16..31
    \/ ip[1] = 192 /\ ip[2] = 0 /\ ip[3] = 0 /\ ip[4] \in (0..7) \cup {170, 171}
    \/ ip[1] = 192 /\ ip[2] = 0 /\ ip[3] = 2
    \/ ip[1] = 192 /\ ip[2] = 168
    \/ ip[1] = 198 /\ ip[2] \in {18, 19}
    \/ ip[1] = 198 /\ ip[2] = 51 /\ ip[3] = 100
    \/ ip[1] = 203 /\ ip[2] = 0 /\ ip[3] = 113
    \/ ip[1] >= 240

\* if not ipaddress.ip_address(ip).is_private: ips.append(ip)
KeepEveryAnswer(ip) == TRUE
kept_answer(ip) == ~is_private(ip)

\* DomainsResolver.get_result
DomainsResolver_get_result(domain, dns) ==
    [ domain |-> domain,
      ips |-> IF dns.raised THEN <<>>
              ELSE SelectSeq(dns.answers, kept_answer) ]

\* DomainsResolver.validate_results
HasPublicIp(results) == \E i \in 1..Len(results) : results[i].ips # <<>>
HasNonPublicDomain(results) == \E i \in 1..Len(results) : results[i].ips = <<>>
ValidWithPublicIpOnly(results) == HasPublicIp(results)
DomainsResolver_validate_results(results) ==
    HasPublicIp(results) /\ HasNonPublicDomain(results)

\* ------------------------------------------------------------------------
\* IpsScanner
\* ------------------------------------------------------------------------

\* ips += resolved_domain['ips'] over the records
RECURSIVE all_ips(_)
all_ips(records) ==
    IF Len(records) = 0 THEN <<>>
    ELSE all_ips(SubSeq(records, 1, Len(records) - 1))
            \o records[Len(records)].ips

\* IpsScanner.get_args_list(resolved_domains): the lists it may return.
IpsScanner_get_args_list(opts, records) ==
    UNION {get_random_items(u, opts.max_ips) :
              u \in get_unique_list(all_ips(records))}

\* What a port does to the scanner: whether s.connect((ip, port)) succeeds
\* and whether requests.get over each scheme returns a response.
PortBehaviours == [connect : BOOLEAN, https : BOOLEAN, http : BOOLEAN]
PortBehaviour(outcome) ==
    [connect |-> outcome # "refused",
     https |-> outcome = "https",
     http |-> outcome = "http"]

\* for scheme in ['https', 'http']
detect_schemes == <<"https", "http">>

\* _detect_scheme: host = get_random_vhost() with SNI, else self._ip
scan_random_vhost == "random_vhost"
detect_host(sni_enabled, ip) ==
    IF sni_enabled THEN [name |-> scan_random_vhost] ELSE [ip |-> ip]

\* IpsScanner(ip).get_result() at its start, for the ports of the options
\* and what each of them does. events is the log of the calls of s.connect
\* (scheme "tcp") and of requests.get, with whether each succeeded.
ScanStart(ip, ports, behaviours) ==
    [ pc |-> IF Len(ports) = 0 THEN "done" ELSE "connect",
      ip |-> ip,
      ports |-> ports,
      behaviours |-> behaviours,
      port_index |-> 1,
      scheme_index |-> 1,
      services |-> <<>>,
      socket |-> "none",
      events |-> <<>>,
      result |-> None ]

ScanEvent(st, scheme, host, ok) ==
    [st EXCEPT !.events = Append(@, [scheme |-> scheme, host |-> host,
                                     port |-> st.ports[st.port_index],
                                     ok |-> ok])]

\* _scan_port has returned scan_result and s.close() is done:
\* if scan_result: services.append(scan_result), and the next port.
PortScanned(st, scan_result) ==
    [st EXCEPT
        !.services = IF scan_result # None THEN Append(@, scan_result) ELSE @,
        !.socket = "closed",
        !.scheme_index = 1,
        !.port_index = @ + 1,
        !.pc = IF st.port_index = Len(st.ports) THEN "done" ELSE "connect"]

\* _scan_port up to s.connect((self._ip, port)); socket.error ends it.
DetectWithoutConnection(st, connected) ==
    [st EXCEPT !.pc = "get", !.socket = "connected"]
scan_connected(st, connected) ==
    IF connected
    THEN [st EXCEPT !.pc = "get", !.socket = "connected"]
    ELSE PortScanned(st, None)
scan_connect(st) ==
    scan_connected(ScanEvent(st, "tcp", [ip |-> st.ip],
                             st.behaviours[st.port_index].connect),
                   st.behaviours[st.port_index].connect)

\* One requests.get of _detect_scheme: return scheme when it answers, the
\* next scheme when it raises, None after the last; then the rest of
\* _scan_port: the service if scheme.
detect_answered(st, scheme, answered) ==
    IF answered
    THEN PortScanned(st, [port |-> st.ports[st.port_index],
                          scheme |-> scheme])
    ELSE IF st.scheme_index < Len(detect_schemes)
    THEN [st EXCEPT !.scheme_index = @ + 1]
    ELSE PortScanned(st, None)
detect_get(st) ==
    detect_answered(
        ScanEvent(st, detect_schemes[st.scheme_index],
                  detect_host(options.sni_enabled, st.ip),
                  st.behaviours[st.port_index][detect_schemes[st.scheme_index]]),
        detect_schemes[st.scheme_index],
        st.behaviours[st.port_index][detect_schemes[st.scheme_index]])

\* IpsScanner.get_result: None when there is no service.
ResultWithAnyServices(ip, services) == [ip |-> ip, services |-> services]
scanned_ip_result(ip, services) ==
    IF services # <<>> THEN [ip |-> ip, services |-> services] ELSE None

\* The end of get_result, after ProgressTracker.instance().done().
scan_return(st) ==
    [st EXCEPT !.pc = "returned",
               !.result = scanned_ip_result(st.ip, st.services)]

\* get_result run to its return.
ScanStep(st) ==
    IF st.pc = "connect" THEN scan_connect(st)
    ELSE IF st.pc = "get" THEN detect_get(st)
    ELSE scan_return(st)
RECURSIVE RunScan(_)
RunScan(st) == IF st.pc = "returned" THEN st ELSE RunScan(ScanStep(st))

\* IpsScanner(ip).get_result() where the ports do as outcomes tells.
IpsScanner_get_result(ip, ports, outcomes) ==
    RunScan(ScanStart(ip, ports,
                      [i \in 1..Len(ports) |-> PortBehaviour(outcomes[i])])
           ).result

\* IpsScanner.validate_results
IpsScanner_validate_results(results) == Len(results) > 0

\* ------------------------------------------------------------------------
\* VhostsFinder
\* ------------------------------------------------------------------------

\* if not resolved_domain['ips']: vhosts_candidates.append(domain)
EveryDomainIsCandidate(record) == TRUE
is_vhost_candidate(record) == record.ips = <<>>

\* VhostsFinder._get_vhost_candidates: the lists it may return.
RECURSIVE candidate_domains(_)
candidate_domains(records) ==
    IF Len(records) = 0 THEN <<>>
    ELSE IF is_vhost_candidate(records[Len(records)])
    THEN Append(candidate_domains(SubSeq(records, 1, Len(records) - 1)),
                records[Len(records)].domain)
    ELSE candidate_domains(SubSeq(records, 1, Len(records) - 1))
get_vhost_candidates(opts, records) ==
    get_random_items(candidate_domains(records), opts.max_vhost_candidates)

\* VhostsFinder.get_args_list(resolved_domains, scanned_ips): the lists it
\* may return, every job with the same candidate list.
VhostsFinder_get_args_list(opts, records, scanned) ==
    {[i \in 1..Len(scanned) |->
         [ip |-> scanned[i].ip, services |-> scanned[i].services,
          vhost_candidates |-> c]] :
        c \in get_vhost_candidates(opts, records)}

\* What VhostsFinder.get_result gets from _find_service_vhosts for each of
\* its services: found[i] = [vhosts |-> service_vhosts, stopped |-> stopped].
service_findings(args, orders, profiles) ==
    [i \in 1..Len(args.services) |->
        find_service_vhosts(args.vhost_candidates, orders[i], profiles[i])]

\* if service_vhosts: vhosts.append((service, stopped, service_vhosts))
KeepEveryService(service_vhosts) == TRUE
has_vhosts(service_vhosts) == service_vhosts # <<>>
vhosts_entry(service, found) ==
    IF has_vhosts(found.vhosts)
    THEN [service |-> service, stopped |-> found.stopped,
          vhosts |-> found.vhosts]
    ELSE None

\* VhostsFinder.get_result: the record of the services with findings; None
\* when there is none.
VhostsFinder_vhosts(args, found) ==
    filter_not_none([i \in 1..Len(args.services) |->
                        vhosts_entry(args.services[i], found[i])])
vhosts_result(ip, entries) ==
    IF entries # <<>> THEN [ip |-> ip, vhosts |-> entries] ELSE None
VhostsFinder_get_result(args, found) ==
    vhosts_result(args.ip, VhostsFinder_vhosts(args, found))

\* VhostsFinder.validate_results
VhostsFinder_validate_results(results) == TRUE

\* ------------------------------------------------------------------------
\* Results.save
\* ------------------------------------------------------------------------

\* The lines written for one ip_data: one for each entry of its vhosts.
output_lines_of(ip_data) ==
    [i \in 1..Len(ip_data.vhosts) |->
        [ ip |-> ip_data.ip,
          port |-> ip_data.vhosts[i].service.port,
          scheme |-> ip_data.vhosts[i].service.scheme,
          stopped |-> ip_data.vhosts[i].stopped,
          vhosts |-> ip_data.vhosts[i].vhosts ]]

RECURSIVE output_lines(_)
output_lines(results) ==
    IF Len(results) = 0 THEN <<>>
    ELSE output_lines(SubSeq(results, 1, Len(results) - 1))
            \o output_lines_of(results[Len(results)])

\* ------------------------------------------------------------------------
\* Pool.map, ProgressTracker and main
\* ------------------------------------------------------------------------

JobClasses == {"DomainsResolver", "IpsScanner", "VhostsFinder"}

\* executor.map(job_class.run, args_list): a job for each element, queued.
\* runs counts the calls of job_class.run on the element.
Submit(args_list) ==
    [i \in 1..Len(args_list) |->
        [args |-> args_list[i], status |-> "queued", result |-> None,
         runs |-> 0]]

\* ProgressTracker(), ProgressTracker.reset(total) and ProgressTracker.done().
\* last_write tells which method wrote the fields last and whether it held
\* self._lock; a timestamp is None or the time of a call of done().
Now == [time |-> "now"]
tracker_new ==
    [ done_counter |-> 0, last_log_info_timestamp |-> None,
      start_timestamp |-> None, total |-> 0, last_write |-> None ]
tracker_reset(total) ==
    [ done_counter |-> 0, last_log_info_timestamp |-> None,
      start_timestamp |-> None, total |-> total,
      last_write |-> [by |-> "reset", lock_held |-> FALSE] ]
tracker_done(t) ==
    [t EXCEPT !.done_counter = @ + 1,
              !.last_log_info_timestamp = Now,
              !.start_timestamp = IF t.done_counter = 0 THEN Now ELSE @,
              !.last_write = [by |-> "done", lock_held |-> TRUE]]

\* A worker thread of the executor may take job i: the queue is first in
\* first out and the executor has threads_number workers.
Running(js) == {k \in 1..Len(js) : js[k].status = "running"}
StartWithoutThreadLimit(js, i, threads_number) ==
    /\ js[i].status = "queued"
    /\ \A k \in 1..(i - 1) : js[k].status # "queued"
can_start(js, i, threads_number) ==
    /\ js[i].status = "queued"
    /\ \A k \in 1..(i - 1) : js[k].status # "queued"
    /\ Cardinality(Running(js)) < threads_number

\* A job that ran to its end with this result.
Finished(js, i, result) ==
    [js EXCEPT ![i].status = "done", ![i].result = result]

\* filter_not_none(executor.map(...)) returns once every job has returned.
SomeJobDone(js) == \E i \in 1..Len(js) : js[i].status = "done"
all_jobs_done(js) == \A i \in 1..Len(js) : js[i].status = "done"

\* The results of the jobs in the order of the arguments, None dropped.
pool_results(js) == filter_not_none([i \in 1..Len(js) |-> js[i].result])

\* if job_class.validate_results(results): return results. What Pool.map
\* returns is None or the list, held in a record.
pool_return(results, valid) == IF valid THEN [list |-> results] ELSE None

\* Python's truth of a list or None.
truthy(x) == x # None /\ x.list # <<>>

\* ------------------------------------------------------------------------
\* GetAddrInfoWrapper and HttpClient.get_response
\* ------------------------------------------------------------------------

\* The class attributes of GetAddrInfoWrapper (_data by thread ident, _lock,
\* _original_method) and the function socket.getaddrinfo is bound to.
\* register_calls counts the calls of register().
Tids == 1..NumWorkers
WrapperStart ==
    [ data |-> [t \in Tids |-> None],
      lock |-> None,
      original_method |-> None,
      getaddrinfo |-> "system",
      register_calls |-> 0 ]

\* GetAddrInfoWrapper.register()
register(wr) ==
    [wr EXCEPT !.lock = [holder |-> 0],
               !.original_method = wr.getaddrinfo,
               !.getaddrinfo = "handler",
               !.register_calls = @ + 1]

\* with GetAddrInfoWrapper._lock: entered and left by the thread tid
lock_free(wr) == wr.lock # None /\ wr.lock.holder = 0
lock_acquire(wr, tid) == [wr EXCEPT !.lock = [holder |-> tid]]
lock_release(wr) == [wr EXCEPT !.lock = [holder |-> 0]]

\* GetAddrInfoWrapper._data[threading.get_ident()]: the key of a thread
SharedKey(tid) == 1
data_key(tid) == tid

\* The value set_names stores: {'names': names, 'ip': ip}
EntryKeepingNames(previous, names, ip) ==
    [names |-> IF previous = None THEN names ELSE previous.names \o names,
     ip |-> ip]
set_names_entry(previous, names, ip) == [names |-> names, ip |-> ip]

\* GetAddrInfoWrapper.set_names(names, ip), inside the lock
set_names(wr, tid, names, ip) ==
    [wr EXCEPT !.data[data_key(tid)] = set_names_entry(@, names, ip)]

\* The list handler returns for an overridden name.
addrinfo(ip, port) ==
    [family |-> "AF_INET", type |-> "SOCK_STREAM", proto |-> "IPPROTO_TCP",
     canonname |-> "", sockaddr |-> <<ip, port>>]

\* GetAddrInfoWrapper.handler(name, port), inside the lock: the list it
\* returns, None when it goes on to _original_method.
entry_override(entry, name, port) ==
    IF entry # None /\ name \in Range(entry.names)
    THEN [list |-> <<addrinfo(entry.ip, port)>>]
    ELSE None
handler_override(wr, tid, name, port) ==
    entry_override(wr.data[data_key(tid)], name, port)

\* The system's socket.getaddrinfo: whatever it answers for the name.
system_getaddrinfo(name, port) == [system |-> <<name, port>>]

\* return GetAddrInfoWrapper._original_method(*args, **kwargs), outside the
\* lock. When _original_method is handler itself, handler finds no override
\* again and calls itself until the interpreter gives up.
call_original_method(wr, name, port) ==
    IF wr.original_method = "system"
    THEN system_getaddrinfo(name, port)
    ELSE [raised |-> "RecursionError"]

\* HttpClient.get_response(vhost): the host of the request's URL and the
\* headers passed with it.
HostAlwaysIp(sni_enabled, vhost, ip) == [ip |-> ip]
request_host(sni_enabled, vhost, ip) ==
    IF sni_enabled THEN [name |-> vhost] ELSE [ip |-> ip]
request_headers(sni_enabled, vhost) ==
    IF sni_enabled THEN {} ELSE {<<"Host", vhost>>}
get_response_request(sni_enabled, vhost, ip, service) ==
    [ scheme |-> service.scheme,
      host |-> request_host(sni_enabled, vhost, ip),
      port |-> service.port,
      headers |-> request_headers(sni_enabled, vhost) ]

\* The server name the TLS layer sends for the URL: the host, unless it is
\* an IP literal.
tls_server_name(host) ==
    IF "name" \in DOMAIN host THEN [name |-> host.name] ELSE None

\* The worker threads of SpecNames probe one service of an address each.
SniService == [port |-> 443, scheme |-> "https"]
SniIps == {PublicIp1, PublicIp2}
SniCandidates == {<<"b.test">>, <<"c.test">>}
ProbedNames == {"b.test", "c.test", random_vhost1}

\* The names _find_service_vhosts hands to set_names.
injected_names(vhost_candidates) ==
    vhost_candidates \o <<random_vhost1, random_vhost2>>

\* A thread that has not run a job yet. own is what the thread itself
\* stored by its last set_names and previous what it had stored before;
\* last is its last request.
ThreadStart ==
    [ pc |-> "new", ip |-> None, vhost_candidates |-> <<>>,
      request |-> None, own |-> None, previous |-> None, last |-> None ]
IdleThreads == [w \in Tids |-> ThreadStart]

\* No two responses are under comparison outside SpecSimilar.
IdleCompared == None

\* No scanner is watched outside SpecScan.
IdleScan == None

\* No pool is watched on its own outside SpecProgress.
IdlePool == None

\* ------------------------------------------------------------------------
\* Spec: main()
\* ------------------------------------------------------------------------

Init ==
    /\ find = FindStart(<<>>)
    /\ options \in OptionChoices
    /\ main_pc = "map_resolver"
    /\ jobs = [c \in JobClasses |-> <<>>]
    /\ tracker = tracker_new
    /\ resolved_domains = None
    /\ scanned_ips = None
    /\ main_vhosts = None
    /\ output_file = [lines |-> <<>>, closed |-> FALSE]
    /\ find_log = {}
    /\ dns_log = {}
    /\ wrapper = WrapperStart
    /\ threads = IdleThreads
    /\ compared = IdleCompared
    /\ scan = IdleScan
    /\ pool = IdlePool

\* Pool.map(DomainsResolver, ()) up to executor.map
MapDomainsResolver ==
    /\ main_pc = "map_resolver"
    /\ \E args_list \in DomainsResolver_get_args_list(options) :
          /\ jobs' = [jobs EXCEPT !["DomainsResolver"] = Submit(args_list)]
          /\ tracker' = tracker_reset(Len(args_list))
    /\ main_pc' = "wait_resolver"
    /\ UNCHANGED <<sni_vars, compared, scan, pool, find,
                   options, resolved_domains, scanned_ips, main_vhosts,
                   output_file, find_log, dns_log>>

\* A worker thread takes the next job of its executor's queue.
WorkerTakesJob ==
    /\ \E c \in JobClasses : \E i \in 1..Len(jobs[c]) :
          /\ can_start(jobs[c], i, options.threads_number)
          /\ jobs' = [jobs EXCEPT ![c][i].status = "running",
                                   ![c][i].runs = @ + 1]
    /\ UNCHANGED <<sni_vars, compared, scan, pool, find,
                   options, main_pc, tracker, resolved_domains,
                   scanned_ips, main_vhosts, output_file, find_log, dns_log>>

\* DomainsResolver.run(args)
ResolveDomain ==
    /\ \E i \in Running(jobs["DomainsResolver"]) :
       \E dns \in DnsOutcomes(jobs["DomainsResolver"][i].args) :
          /\ jobs' = [jobs EXCEPT !["DomainsResolver"] =
                         Finished(@, i, DomainsResolver_get_result(
                                            @[i].args, dns))]
          /\ dns_log' = dns_log \cup
                            {[domain |-> jobs["DomainsResolver"][i].args,
                              dns |-> dns]}
    /\ tracker' = tracker_done(tracker)
    /\ UNCHANGED <<sni_vars, compared, scan, pool, find,
                   options, main_pc, resolved_domains, scanned_ips,
                   main_vhosts, output_file, find_log>>

\* resolved_domains = Pool.map(DomainsResolver, ()), from the results on,
\* and if resolved_domains:
ReturnDomainsResolver ==
    /\ main_pc = "wait_resolver"
    /\ all_jobs_done(jobs["DomainsResolver"])
    /\ resolved_domains' =
          pool_return(pool_results(jobs["DomainsResolver"]),
                      DomainsResolver_validate_results(
                          pool_results(jobs["DomainsResolver"])))
    /\ main_pc' = IF truthy(resolved_domains') THEN "map_scanner" ELSE "exit"
    /\ UNCHANGED <<sni_vars, compared, scan, pool, find,
                   options, jobs, tracker, scanned_ips, main_vhosts,
                   output_file, find_log, dns_log>>

\* Pool.map(IpsScanner, (resolved_domains, )) up to executor.map
MapIpsScanner ==
    /\ main_pc = "map_scanner"
    /\ \E args_list \in IpsScanner_get_args_list(options, resolved_domains.list) :
          /\ jobs' = [jobs EXCEPT !["IpsScanner"] = Submit(args_list)]
          /\ tracker' = tracker_reset(Len(args_list))
    /\ main_pc' = "wait_scanner"
    /\ UNCHANGED <<sni_vars, compared, scan, pool, find,
                   options, resolved_domains, scanned_ips, main_vhosts,
                   output_file, find_log, dns_log>>

\* IpsScanner.run(args)
ScanIp ==
    /\ \E i \in Running(jobs["IpsScanner"]) :
       \E outcomes \in PortsOutcomes(options.ports) :
          jobs' = [jobs EXCEPT !["IpsScanner"] =
                      Finished(@, i, IpsScanner_get_result(
                                         @[i].args, options.ports, outcomes))]
    /\ tracker' = tracker_done(tracker)
    /\ UNCHANGED <<sni_vars, compared, scan, pool, find,
                   options, main_pc, resolved_domains, scanned_ips,
                   main_vhosts, output_file, find_log, dns_log>>

\* scanned_ips = Pool.map(IpsScanner, ...), from the results on, and
\* if scanned_ips:
ReturnIpsScanner ==
    /\ main_pc = "wait_scanner"
    /\ all_jobs_done(jobs["IpsScanner"])
    /\ scanned_ips' =
          pool_return(pool_results(jobs["IpsScanner"]),
                      IpsScanner_validate_results(
                          pool_results(jobs["IpsScanner"])))
    /\ main_pc' = IF truthy(scanned_ips') THEN "map_finder" ELSE "exit"
    /\ UNCHANGED <<sni_vars, compared, scan, pool, find,
                   options, jobs, tracker, resolved_domains,
                   main_vhosts, output_file, find_log, dns_log>>

\* Pool.map(VhostsFinder, (resolved_domains, scanned_ips, )) up to
\* executor.map
MapVhostsFinder ==
    /\ main_pc = "map_finder"
    /\ \E args_list \in VhostsFinder_get_args_list(
                           options, resolved_domains.list, scanned_ips.list) :
          /\ jobs' = [jobs EXCEPT !["VhostsFinder"] = Submit(args_list)]
          /\ tracker' = tracker_reset(Len(args_list))
    /\ main_pc' = "wait_finder"
    /\ UNCHANGED <<sni_vars, compared, scan, pool, find,
                   options, resolved_domains, scanned_ips, main_vhosts,
                   output_file, find_log, dns_log>>

\* The returns of _find_service_vhosts of one job, for find_log.
logged_findings(args, found) ==
    {[ip |-> args.ip, service |-> args.services[i],
      vhosts |-> found[i].vhosts, stopped |-> found[i].stopped] :
        i \in 1..Len(args.services)}

\* VhostsFinder.run(args), given what _find_service_vhosts returned.
FinishFinder(i, args, found) ==
    /\ jobs' = [jobs EXCEPT !["VhostsFinder"] =
                   Finished(@, i, VhostsFinder_get_result(args, found))]
    /\ find_log' = find_log \cup logged_findings(args, found)

\* VhostsFinder.run(args)
FindVhosts ==
    /\ \E i \in Running(jobs["VhostsFinder"]) :
       \E orders \in [1..Len(jobs["VhostsFinder"][i].args.services) ->
                         get_random_items(
                             jobs["VhostsFinder"][i].args.vhost_candidates,
                             -1)] :
       \E profiles \in [1..Len(jobs["VhostsFinder"][i].args.services) ->
                           ServerProfiles] :
          FinishFinder(i, jobs["VhostsFinder"][i].args,
                       service_findings(jobs["VhostsFinder"][i].args,
                                        orders, profiles))
    /\ tracker' = tracker_done(tracker)
    /\ UNCHANGED <<sni_vars, compared, scan, pool, find,
                   options, main_pc, resolved_domains, scanned_ips,
                   main_vhosts, output_file, dns_log>>

\* vhosts = Pool.map(VhostsFinder, ...), from the results on, and if vhosts:
ReturnVhostsFinder ==
    /\ main_pc = "wait_finder"
    /\ all_jobs_done(jobs["VhostsFinder"])
    /\ main_vhosts' =
          pool_return(pool_results(jobs["VhostsFinder"]),
                      VhostsFinder_validate_results(
                          pool_results(jobs["VhostsFinder"])))
    /\ main_pc' = IF truthy(main_vhosts') THEN "save" ELSE "exit"
    /\ UNCHANGED <<sni_vars, compared, scan, pool, find,
                   options, jobs, tracker, resolved_domains,
                   scanned_ips, output_file, find_log, dns_log>>

\* Results.save(vhosts)
SaveResults ==
    /\ main_pc = "save"
    /\ output_file' = [lines |-> output_file.lines \o output_lines(main_vhosts.list),
                       closed |-> TRUE]
    /\ main_pc' = "exit"
    /\ UNCHANGED <<sni_vars, compared, scan, pool, find,
                   options, jobs, tracker, resolved_domains,
                   scanned_ips, main_vhosts, find_log, dns_log>>

Next ==
    \/ MapDomainsResolver
    \/ WorkerTakesJob
    \/ ResolveDomain
    \/ ReturnDomainsResolver
    \/ MapIpsScanner
    \/ ScanIp
    \/ ReturnIpsScanner
    \/ MapVhostsFinder
    \/ FindVhosts
    \/ ReturnVhostsFinder
    \/ SaveResults

Spec == Init /\ [][Next]_vars

\* ------------------------------------------------------------------------
\* SpecFind: one call of _find_service_vhosts, a request a step
\* ------------------------------------------------------------------------

\* The call is watched on its own: main() is at its end and has done nothing.
InitFind ==
    /\ find = FindStart(FindCandidates)
    /\ options \in {[max_domains |-> -1, max_ips |-> -1,
                     max_vhost_candidates |-> -1, ports |-> Ports,
                     threads_number |-> NumThreads, sni_enabled |-> FALSE,
                     logs_dir |-> l] : l \in LogsDirs}
    /\ main_pc = "exit"
    /\ jobs = [c \in JobClasses |-> <<>>]
    /\ tracker = tracker_new
    /\ resolved_domains = None
    /\ scanned_ips = None
    /\ main_vhosts = None
    /\ output_file = [lines |-> <<>>, closed |-> FALSE]
    /\ find_log = {}
    /\ dns_log = {}
    /\ wrapper = WrapperStart
    /\ threads = IdleThreads
    /\ compared = IdleCompared
    /\ scan = IdleScan
    /\ pool = IdlePool

RequestBaseline1 ==
    /\ find.pc = "baseline1"
    /\ \E outcome \in Outcomes : find' = FindBaseline1(find, outcome)
    /\ UNCHANGED <<pipeline_vars, sni_vars, compared, scan, pool>>

RequestBaseline2 ==
    /\ find.pc = "baseline2"
    /\ \E outcome \in Outcomes, order \in LoopOrders(find.vhost_candidates) :
          find' = FindBaseline2(find, outcome, order)
    /\ UNCHANGED <<pipeline_vars, sni_vars, compared, scan, pool>>

ProbeCandidate ==
    /\ find.pc = "loop"
    /\ \E outcome \in Outcomes : find' = FindLoopStep(find, outcome)
    /\ UNCHANGED <<pipeline_vars, sni_vars, compared, scan, pool>>

NextFind ==
    \/ RequestBaseline1
    \/ RequestBaseline2
    \/ ProbeCandidate

SpecFind == InitFind /\ [][NextFind]_vars

\* ------------------------------------------------------------------------
\* SpecNames: worker threads that probe services by name, each request of
\* HttpClient.get_response and each step of set_names and handler a step
\* ------------------------------------------------------------------------

InitNames ==
    /\ find = FindStart(<<>>)
    /\ options \in {[max_domains |-> -1, max_ips |-> -1,
                     max_vhost_candidates |-> -1, ports |-> Ports,
                     threads_number |-> NumWorkers, sni_enabled |-> e,
                     logs_dir |-> None] : e \in BOOLEAN}
    /\ main_pc = "exit"
    /\ jobs = [c \in JobClasses |-> <<>>]
    /\ tracker = tracker_new
    /\ resolved_domains = None
    /\ scanned_ips = None
    /\ main_vhosts = None
    /\ output_file = [lines |-> <<>>, closed |-> FALSE]
    /\ find_log = {}
    /\ dns_log = {}
    /\ wrapper = WrapperStart
    /\ threads = IdleThreads
    /\ compared = IdleCompared
    /\ scan = IdleScan
    /\ pool = IdlePool

names_unchanged == UNCHANGED <<find, pipeline_vars, compared, scan, pool>>

\* main(): if options['sni_enabled']: GetAddrInfoWrapper.register()
RegisterWrapper ==
    /\ options.sni_enabled
    /\ wrapper.register_calls = 0
    /\ wrapper' = register(wrapper)
    /\ UNCHANGED threads
    /\ names_unchanged

\* main() is past its call of register(), if it makes one.
MainStartedPools == options.sni_enabled => wrapper.register_calls > 0

\* _find_service_vhosts of a thread begins for a service of ip: with SNI it
\* enters set_names and takes the lock.
StartService(w) ==
    /\ threads[w].pc = "new"
    /\ MainStartedPools
    /\ \E ip \in SniIps, candidates \in SniCandidates :
          threads' = [threads EXCEPT
                         ![w].ip = ip,
                         ![w].vhost_candidates = candidates,
                         ![w].pc = IF options.sni_enabled
                                   THEN "set_names" ELSE "probing"]
    /\ IF options.sni_enabled
       THEN lock_free(wrapper) /\ wrapper' = lock_acquire(wrapper, w)
       ELSE UNCHANGED wrapper
    /\ names_unchanged

\* set_names stores the entry of the thread and leaves the lock.
StoreNames(w) ==
    /\ threads[w].pc = "set_names"
    /\ wrapper' = lock_release(
                      set_names(wrapper, w,
                                injected_names(threads[w].vhost_candidates),
                                threads[w].ip))
    /\ threads' = [threads EXCEPT
                      ![w].pc = "probing",
                      ![w].previous = threads[w].own,
                      ![w].own = [names |-> injected_names(
                                                threads[w].vhost_candidates),
                                  ip |-> threads[w].ip]]
    /\ names_unchanged

\* What the thread remembers of a request: the name asked for, the request,
\* the server name of its TLS handshake and what getaddrinfo answered (None
\* when the URL holds the IP and nothing is looked up).
sent(vhost, request, answer) ==
    [ vhost |-> vhost, request |-> request,
      server_name |-> tls_server_name(request.host), answer |-> answer ]

\* The request get_response(vhost) of the thread makes.
thread_request(w, vhost) ==
    get_response_request(options.sni_enabled, vhost, threads[w].ip,
                         SniService)

\* get_response(vhost) with a name in the URL: the session calls
\* socket.getaddrinfo, that is handler, which takes the lock.
LookupByName(w, vhost, request) ==
    /\ wrapper.getaddrinfo = "handler"
    /\ lock_free(wrapper)
    /\ wrapper' = lock_acquire(wrapper, w)
    /\ threads' = [threads EXCEPT
                      ![w].pc = "handler",
                      ![w].request = sent(vhost, request, None),
                      ![w].last = None]

\* get_response(vhost) with the IP in the URL: no name is looked up.
ConnectToIp(w, vhost, request) ==
    /\ threads' = [threads EXCEPT ![w].last = sent(vhost, request, None)]
    /\ UNCHANGED wrapper

\* HttpClient.get_response(vhost)
GetResponse(w) ==
    /\ threads[w].pc = "probing"
    /\ \E vhost \in ProbedNames :
          IF "name" \in DOMAIN thread_request(w, vhost).host
          THEN LookupByName(w, vhost, thread_request(w, vhost))
          ELSE ConnectToIp(w, vhost, thread_request(w, vhost))
    /\ names_unchanged

\* The thread's lookup ends with this answer.
answered(w, answer) ==
    [threads EXCEPT ![w].pc = "probing",
                    ![w].last = [threads[w].request EXCEPT !.answer = answer],
                    ![w].request = None]

\* handler inside the lock: it returns the override, or leaves the lock to
\* call _original_method.
HandlerLookup(w) ==
    /\ threads[w].pc = "handler"
    /\ wrapper' = lock_release(wrapper)
    /\ threads' =
          IF handler_override(wrapper, w, threads[w].request.vhost,
                              SniService.port) # None
          THEN answered(w, handler_override(wrapper, w,
                                            threads[w].request.vhost,
                                            SniService.port))
          ELSE [threads EXCEPT ![w].pc = "call_original"]
    /\ names_unchanged

\* return GetAddrInfoWrapper._original_method(*args, **kwargs)
CallOriginal(w) ==
    /\ threads[w].pc = "call_original"
    /\ threads' = answered(w, call_original_method(
                                  wrapper, threads[w].request.vhost,
                                  SniService.port))
    /\ UNCHANGED wrapper
    /\ names_unchanged

\* The thread is done with the service and goes on to the next one.
NextService(w) ==
    /\ threads[w].pc = "probing"
    /\ threads[w].last # None
    /\ threads' = [threads EXCEPT ![w].pc = "new", ![w].last = None]
    /\ UNCHANGED wrapper
    /\ names_unchanged

\* The thread ends with its executor, and a thread of the next executor
\* gets its ident: threading.get_ident() may return the ident of a thread
\* that has ended.
ThreadReplaced(w) ==
    /\ threads[w].pc = "probing"
    /\ threads[w].last # None
    /\ threads' = [threads EXCEPT ![w] = ThreadStart]
    /\ UNCHANGED wrapper
    /\ names_unchanged

NextNames ==
    \/ RegisterWrapper
    \/ \E w \in Tids : StartService(w)
    \/ \E w \in Tids : StoreNames(w)
    \/ \E w \in Tids : GetResponse(w)
    \/ \E w \in Tids : HandlerLookup(w)
    \/ \E w \in Tids : CallOriginal(w)
    \/ \E w \in Tids : NextService(w)
    \/ \E w \in Tids : ThreadReplaced(w)

SpecNames == InitNames /\ [][NextNames]_vars

\* ------------------------------------------------------------------------
\* SpecRegister: SpecNames with SNI enabled, where register() may be called
\* again
\* ------------------------------------------------------------------------

InitRegister == InitNames /\ options.sni_enabled

\* GetAddrInfoWrapper.register() called once more, by a thread outside the
\* lock.
RegisterAgain ==
    /\ wrapper.register_calls \in 1..(MaxRegisterCalls - 1)
    /\ lock_free(wrapper)
    /\ wrapper' = register(wrapper)
    /\ UNCHANGED threads
    /\ names_unchanged

NextRegister ==
    \/ NextNames
    \/ RegisterAgain

SpecRegister == InitRegister /\ [][NextRegister]_vars

\* ------------------------------------------------------------------------
\* SpecSimilar: HttpResponse.is_similar on two responses
\* ------------------------------------------------------------------------

\* The bodies of up to n characters over two letters.
BodiesUpTo(n) == UNION {[1..k -> {"a", "b"}] : k \in 0..n}

\* HttpResponse(response): with a location header the body stays empty,
\* without one the location stays empty.
ResponsesUpTo(n) ==
    {[status_code |-> c, location |-> "", body |-> b] :
        c \in {200, 404}, b \in BodiesUpTo(n)}
    \cup {[status_code |-> c, location |-> l, body |-> <<>>] :
             c \in {200, 404}, l \in {"/a", "/b"}}

\* The first response has a body of up to MaxBodyLen - 2 characters, the
\* second of up to MaxBodyLen.
InitSimilar ==
    /\ find = FindStart(<<>>)
    /\ options = [max_domains |-> -1, max_ips |-> -1,
                  max_vhost_candidates |-> -1, ports |-> Ports,
                  threads_number |-> NumThreads, sni_enabled |-> FALSE,
                  logs_dir |-> None]
    /\ main_pc = "exit"
    /\ jobs = [c \in JobClasses |-> <<>>]
    /\ tracker = tracker_new
    /\ resolved_domains = None
    /\ scanned_ips = None
    /\ main_vhosts = None
    /\ output_file = [lines |-> <<>>, closed |-> FALSE]
    /\ find_log = {}
    /\ dns_log = {}
    /\ wrapper = WrapperStart
    /\ threads = IdleThreads
    /\ scan = IdleScan
    /\ pool = IdlePool
    /\ \E a \in ResponsesUpTo(MaxBodyLen - 2), b \in ResponsesUpTo(MaxBodyLen) :
          compared = [pc |-> "chosen", a |-> a, b |-> b]

\* a.is_similar(b), b.is_similar(a), a.is_similar(a) and b.is_similar(b)
Compare ==
    /\ compared # None
    /\ compared.pc = "chosen"
    /\ compared' = [ pc |-> "compared", a |-> compared.a, b |-> compared.b,
                     a_b |-> is_similar(compared.a, compared.b),
                     b_a |-> is_similar(compared.b, compared.a),
                     a_a |-> is_similar(compared.a, compared.a),
                     b_b |-> is_similar(compared.b, compared.b) ]
    /\ UNCHANGED <<find, pipeline_vars, sni_vars, scan, pool>>

NextSimilar == Compare

SpecSimilar == InitSimilar /\ [][NextSimilar]_vars

\* ------------------------------------------------------------------------
\* SpecScan: one call of IpsScanner.get_result, a connect or a request a
\* step
\* ------------------------------------------------------------------------

\* The thread of the scanner.
ScanThread == 1

\* The scanner is the one job of its stage: main() has registered the
\* wrapper if SNI is enabled and Pool.map has reset the tracker.
InitScan ==
    /\ find = FindStart(<<>>)
    /\ options \in {[max_domains |-> -1, max_ips |-> -1,
                     max_vhost_candidates |-> -1, ports |-> Ports,
                     threads_number |-> NumThreads, sni_enabled |-> e,
                     logs_dir |-> None] : e \in BOOLEAN}
    /\ main_pc = "exit"
    /\ jobs = [c \in JobClasses |-> <<>>]
    /\ tracker = tracker_reset(1)
    /\ resolved_domains = None
    /\ scanned_ips = None
    /\ main_vhosts = None
    /\ output_file = [lines |-> <<>>, closed |-> FALSE]
    /\ find_log = {}
    /\ dns_log = {}
    /\ wrapper = IF options.sni_enabled THEN register(WrapperStart)
                 ELSE WrapperStart
    /\ threads = IdleThreads
    /\ compared = IdleCompared
    /\ pool = IdlePool
    /\ \E ip \in SniIps, behaviours \in [1..Len(Ports) -> PortBehaviours] :
          scan = ScanStart(ip, options.ports, behaviours)

\* s.connect((self._ip, port))
ScanConnect ==
    /\ scan.pc = "connect"
    /\ scan' = scan_connect(scan)
    /\ UNCHANGED <<find, pipeline_vars, sni_vars, compared, pool>>

\* A requests.get of _detect_scheme; before the first of a port, with SNI,
\* GetAddrInfoWrapper.set_names([host], self._ip).
ScanGet ==
    /\ scan.pc = "get"
    /\ scan' = detect_get(scan)
    /\ wrapper' = IF options.sni_enabled /\ scan.scheme_index = 1
                  THEN set_names(wrapper, ScanThread, <<scan_random_vhost>>,
                                 scan.ip)
                  ELSE wrapper
    /\ UNCHANGED <<find, pipeline_vars, threads, compared, pool>>

\* ProgressTracker.instance().done() and the return of get_result
ScanDone ==
    /\ scan.pc = "done"
    /\ tracker' = tracker_done(tracker)
    /\ scan' = scan_return(scan)
    /\ UNCHANGED <<find, options, main_pc, jobs, resolved_domains,
                   scanned_ips, main_vhosts, output_file, find_log, dns_log,
                   sni_vars, compared, pool>>

NextScan ==
    \/ ScanConnect
    \/ ScanGet
    \/ ScanDone

SpecScan == InitScan /\ [][NextScan]_vars

\* ------------------------------------------------------------------------
\* SpecProgress: one Pool.map, its worker threads inside the jobs and
\* inside ProgressTracker.done(), a statement a step
\* ------------------------------------------------------------------------

\* What get_result of a job of the class may have for its result when it
\* calls done(): the resolver has a record, the other two a record or None.
ProgressEntry ==
    [service |-> SniService, stopped |-> FALSE,
     vhosts |-> <<[vhost |-> "b.test", status_code |-> 200]>>]
JobResults(c, args) ==
    IF c = "DomainsResolver"
    THEN {DomainsResolver_get_result(args, dns) :
             dns \in {DnsRaises, DnsAnswers(<<PublicIp1>>)}}
    ELSE IF c = "IpsScanner"
    THEN {scanned_ip_result(args, services) :
             services \in {<<>>, <<SniService>>}}
    ELSE {vhosts_result(args, entries) :
             entries \in {<<>>, <<ProgressEntry>>}}

\* Pool.map(job_class, ...) after executor.map: the jobs queued, no thread
\* in done(). pc is where the thread of a job is, pending the result the
\* job will return, read the _done_counter the thread has loaded,
\* done_calls the calls of done() the job has made.
PoolStart(c, n) ==
    [ job_class |-> c,
      jobs |-> Submit([i \in 1..n |-> i]),
      lock |-> 0,
      pc |-> [i \in 1..n |-> "run"],
      pending |-> [i \in 1..n |-> None],
      read |-> [i \in 1..n |-> 0],
      done_calls |-> [i \in 1..n |-> 0] ]

\* with self._lock: the lock of the tracker can be taken.
TrackerLockIgnored(holder) == TRUE
tracker_lock_free(holder) == holder = 0

\* The tracker after self._done_counter += 1 stores the sum of one and the
\* value loaded, with the rest of done().
done_store(t, loaded) == tracker_done([t EXCEPT !.done_counter = loaded])

InitProgress ==
    /\ find = FindStart(<<>>)
    /\ options = [max_domains |-> -1, max_ips |-> -1,
                  max_vhost_candidates |-> -1, ports |-> Ports,
                  threads_number |-> NumThreads, sni_enabled |-> FALSE,
                  logs_dir |-> None]
    /\ main_pc = "exit"
    /\ jobs = [c \in JobClasses |-> <<>>]
    /\ resolved_domains = None
    /\ scanned_ips = None
    /\ main_vhosts = None
    /\ output_file = [lines |-> <<>>, closed |-> FALSE]
    /\ find_log = {}
    /\ dns_log = {}
    /\ wrapper = WrapperStart
    /\ threads = IdleThreads
    /\ compared = IdleCompared
    /\ scan = IdleScan
    /\ \E c \in JobClasses, n \in 1..MaxJobs :
          /\ pool = PoolStart(c, n)
          /\ tracker = tracker_reset(n)

progress_unchanged ==
    UNCHANGED <<find, options, main_pc, jobs, resolved_domains, scanned_ips,
                main_vhosts, output_file, find_log, dns_log, sni_vars,
                compared, scan>>

\* A worker thread takes the next job of the executor's queue.
PoolTakesJob ==
    /\ \E i \in 1..Len(pool.jobs) :
          /\ can_start(pool.jobs, i, options.threads_number)
          /\ pool' = [pool EXCEPT !.jobs[i].status = "running",
                                  !.jobs[i].runs = @ + 1]
    /\ UNCHANGED tracker
    /\ progress_unchanged

\* get_result up to ProgressTracker.instance().done()
JobWorks ==
    /\ \E i \in Running(pool.jobs) :
          /\ pool.pc[i] = "run"
          /\ \E result \in JobResults(pool.job_class, pool.jobs[i].args) :
                pool' = [pool EXCEPT !.pc[i] = "done_call",
                                     !.pending[i] = result]
    /\ UNCHANGED tracker
    /\ progress_unchanged

\* done(): with self._lock, entered
DoneAcquire ==
    /\ \E i \in Running(pool.jobs) :
          /\ pool.pc[i] = "done_call"
          /\ tracker_lock_free(pool.lock)
          /\ pool' = [pool EXCEPT !.pc[i] = "locked", !.lock = i,
                                  !.done_calls[i] = @ + 1]
    /\ UNCHANGED tracker
    /\ progress_unchanged

\* done(): self._done_counter += 1, the load
DoneLoad ==
    /\ \E i \in Running(pool.jobs) :
          /\ pool.pc[i] = "locked"
          /\ pool' = [pool EXCEPT !.pc[i] = "loaded",
                                  !.read[i] = tracker.done_counter]
    /\ UNCHANGED tracker
    /\ progress_unchanged

\* done(): self._done_counter += 1, the store, with the timestamps
DoneStore ==
    /\ \E i \in Running(pool.jobs) :
          /\ pool.pc[i] = "loaded"
          /\ tracker' = done_store(tracker, pool.read[i])
          /\ pool' = [pool EXCEPT !.pc[i] = "stored"]
    /\ progress_unchanged

\* done(): with self._lock, left; and the return of get_result
DoneRelease ==
    /\ \E i \in Running(pool.jobs) :
          /\ pool.pc[i] = "stored"
          /\ pool' = [pool EXCEPT !.pc[i] = "returned", !.lock = 0,
                                  !.jobs = Finished(@, i, pool.pending[i])]
    /\ UNCHANGED tracker
    /\ progress_unchanged

NextProgress ==
    \/ PoolTakesJob
    \/ JobWorks
    \/ DoneAcquire
    \/ DoneLoad
    \/ DoneStore
    \/ DoneRelease

SpecProgress == InitProgress /\ [][NextProgress]_vars

\* ------------------------------------------------------------------------
\* Properties of _find_service_vhosts (SpecFind)
\* ------------------------------------------------------------------------

\* The first n entries of a log.
Prefix(log, n) == SubSeq(log, 1, n)

\* The log ends with at least k entries of the given kind.
EndsWithRun(log, kind, k) ==
    /\ Len(log) >= k
    /\ \A i \in (Len(log) - k + 1)..Len(log) : log[i][1] = kind

\* The first n probes of the log end with more than 8 consecutive errors or
\* more than 8 consecutive findings.
OverflowAt(log, n) ==
    /\ n >= 9
    /\ \/ \A i \in (n - 8)..n : log[i][1] = "error"
       \/ \A i \in (n - 8)..n : log[i][1] = "valid"

\* The same after the last probe of the log.
Overflow(log) == OverflowAt(log, Len(log))

Returned == find.pc = "returned"

BaselinePassed == find.baseline = <<"answered", "similar">>

\* The findings the log of the probes calls for, in probe order.
RECURSIVE LoggedFindings(_, _)
LoggedFindings(order, log) ==
    IF Len(log) = 0 THEN <<>>
    ELSE LET n == Len(log)
             before == LoggedFindings(order, Prefix(log, n - 1))
         IN  IF log[n][1] = "valid"
             THEN Append(before, [vhost |-> order[n],
                                  status_code |-> log[n][2]])
             ELSE before

\* The candidate names asked for, in request order (the requests after the
\* two baseline requests).
CandidateRequests ==
    IF Len(find.requests) <= 2 THEN <<>>
    ELSE SubSeq(find.requests, 3, Len(find.requests))

\* No element occurs twice in the list.
NoRepeat(s) == Cardinality(Range(s)) = Len(s)

\* C1: the candidate loop stops with stopped = true exactly at the first
\* probe after which the error series or the valid series exceeds 8: a
\* probe that overflows a series is the last probe and the call has returned
\* stopped = true; a call that returned stopped = true out of the loop
\* overflowed a series at its last probe (so not at a series of 8).
C1_StopAtFirstOverflow ==
    /\ \A n \in 1..Len(find.probes) :
          OverflowAt(find.probes, n) =>
              /\ n = Len(find.probes)
              /\ Returned
              /\ find.result.stopped = TRUE
    /\ (Returned /\ BaselinePassed /\ find.result.stopped = TRUE) =>
          Overflow(find.probes)
    /\ find.pc = "loop" => ~find.stopped

\* C1 witness: the ninth consecutive error stopped the loop with a candidate
\* still unprobed.
C1_Witness ==
    /\ Returned
    /\ find.result.stopped = TRUE
    /\ EndsWithRun(find.probes, "error", 9)
    /\ Len(find.probes) < Len(find.order)

\* C2: the loop asks for at most min(|candidates|, position of the probe that
\* overflows a series) candidates, each of them a candidate of the list and
\* none of them twice.
C2_RequestBound ==
    /\ Len(find.requests) <= 2 + Len(find.vhost_candidates)
    /\ Len(find.requests) > 2 => Len(find.requests) = 2 + Len(find.probes)
    /\ \A n \in 1..Len(find.probes) :
          OverflowAt(find.probes, n) => Len(find.requests) <= 2 + n
    /\ Range(CandidateRequests) \subseteq Range(find.vhost_candidates)
    /\ NoRepeat(CandidateRequests)

\* C2 witness: no series overflowed and the whole list was probed.
C2_Witness ==
    /\ Returned
    /\ ~Overflow(find.probes)
    /\ Len(find.requests) = 2 + Len(find.vhost_candidates)
    /\ Len(find.vhosts) > 0

\* C3: when the request for random_vhost1 fails, or the response for
\* random_vhost2 is not similar to the reference, the call has returned no
\* findings with stopped = true and has probed no candidate.
C3_BaselineAbandon ==
    (find.baseline = <<"error">> \/ find.baseline = <<"answered", "valid">>) =>
        /\ Returned
        /\ find.result = [vhosts |-> <<>>, stopped |-> TRUE]
        /\ find.probes = <<>>
        /\ Range(find.requests) \subseteq {random_vhost1, random_vhost2}

\* C3 witness: the second random label got a response that is not similar.
C3_Witness ==
    /\ Returned
    /\ find.baseline = <<"answered", "valid">>

\* C4: when the ninth consecutive error ends the loop, the call returns
\* stopped = true with every finding of the probes before the burst.
C4_ErrorBurstKeepsFindings ==
    (Returned /\ EndsWithRun(find.probes, "error", 9)) =>
        /\ find.result.stopped = TRUE
        /\ find.result.vhosts = LoggedFindings(find.order, find.probes)

\* C4 witness: an error burst ended a loop that had found a vhost.
C4_Witness ==
    /\ Returned
    /\ EndsWithRun(find.probes, "error", 9)
    /\ Len(find.result.vhosts) > 0

\* A returned call ended early: the baseline was abandoned or a series
\* overflowed.
EndedEarly == ~BaselinePassed \/ Overflow(find.probes)

\* Every candidate of the list was asked for exactly once.
EveryCandidateProbedOnce ==
    /\ Range(CandidateRequests) = Range(find.vhost_candidates)
    /\ NoRepeat(CandidateRequests)

\* C5 as stated: stopped = false exactly when both baselines passed and
\* every candidate was probed once.
C5_AsStated ==
    Returned =>
        /\ find.result.stopped = TRUE <=> EndedEarly
        /\ find.result.stopped = FALSE <=>
              (BaselinePassed /\ EveryCandidateProbedOnce)

\* C5 amended: stopped = true exactly when the baseline was abandoned or a
\* series overflowed; stopped = false exactly when both baselines passed,
\* every candidate was probed once and the last probe overflowed no series.
C5_StoppedMeaning ==
    Returned =>
        /\ find.result.stopped = TRUE <=> EndedEarly
        /\ find.result.stopped = FALSE <=>
              (BaselinePassed /\ EveryCandidateProbedOnce
               /\ ~Overflow(find.probes))

\* C5 witness: the series overflowed at the last candidate of the list.
C5_Witness ==
    /\ Returned
    /\ BaselinePassed
    /\ EveryCandidateProbedOnce
    /\ find.result.stopped = TRUE

\* The log ends with exactly k entries of the given kind: k of them, and
\* the entry before them, if there is one, is of another kind.
TrailingRun(log, kind, k) ==
    /\ EndsWithRun(log, kind, k)
    /\ Len(log) > k => log[Len(log) - k][1] # kind

\* The number of probes of the given kind in the log.
CountOf(log, kind) == Cardinality({i \in 1..Len(log) : log[i][1] = kind})

\* C19: in the candidate loop, after each probe that does not end it,
\* error_series_length is the number of probes right before that raised a
\* transport error, one after another, and valid_vhosts_series_length the
\* number of probes right before that gave a finding, one after another.
C19_SeriesAreConsecutive ==
    find.pc = "loop" =>
        /\ TrailingRun(find.probes, "error", find.error_series_length)
        /\ TrailingRun(find.probes, "valid",
                       find.valid_vhosts_series_length)

\* C19 witness: the loop goes on after five errors and three findings that
\* were not consecutive, with an error series of one and no valid series.
C19_Witness ==
    /\ find.pc = "loop"
    /\ CountOf(find.probes, "error") >= 5
    /\ CountOf(find.probes, "valid") >= 3
    /\ find.error_series_length = 1
    /\ find.valid_vhosts_series_length = 0

\* The findings list of the service: what the call returned, or the list
\* the loop has so far.
Findings == IF Returned THEN find.result.vhosts ELSE find.vhosts

\* The finding of the n-th probe, if it makes one.
FindingOfProbe(n) ==
    [vhost |-> find.order[n], status_code |-> find.probes[n][2]]

\* C20: at every point of the call, and when it has returned, the
\* findings list holds a pair of candidate and status exactly for the
\* probes that returned a response not similar to the reference, one each:
\* a probe that raised or was answered like the reference adds none, and a
\* log file that could not be written takes none away.
C20_FindingsAreValidProbes ==
    /\ \A n \in 1..Len(find.probes) :
          find.probes[n][1] = "valid" =>
              \E k \in 1..Len(Findings) : Findings[k] = FindingOfProbe(n)
    /\ \A k \in 1..Len(Findings) :
          \E n \in 1..Len(find.probes) :
              /\ find.probes[n][1] = "valid"
              /\ Findings[k] = FindingOfProbe(n)
    /\ Len(Findings) = CountOf(find.probes, "valid")

\* C20 witness: a probe raised, one was answered like the reference, and
\* one made a finding whose log file could not be written.
C20_Witness ==
    /\ CountOf(find.probes, "error") >= 1
    /\ CountOf(find.probes, "similar") >= 1
    /\ \E n \in 1..Len(find.probes) :
          /\ find.log_writes[n] = "OSError"
          /\ \E k \in 1..Len(Findings) : Findings[k] = FindingOfProbe(n)

\* C15: when the procedure has returned, on any of its paths, the session
\* of its HTTP client is closed.
C15_SessionClosedOnExit ==
    Returned => find.http_client.session = "closed"

\* ------------------------------------------------------------------------
\* Properties of HttpResponse.is_similar (SpecSimilar)
\* ------------------------------------------------------------------------

Compared == compared # None /\ compared.pc = "compared"

\* C16 as stated: is_similar is reflexive and symmetric.
C16_AsStated ==
    Compared =>
        /\ compared.a_a /\ compared.b_b
        /\ compared.a_b = compared.b_a

\* The two responses have the same status and the same location.
SameStatusAndLocation ==
    /\ compared.a.status_code = compared.b.status_code
    /\ compared.a.location = compared.b.location

\* The ratio of the sequence matcher is at least 0.8 one way and less the
\* other way.
RatioDependsOnOrder ==
    /\ SameStatusAndLocation
    /\ compared.a_b # compared.b_a

\* C16 amended: is_similar is reflexive; two similar responses, either way,
\* have the same status and the same location, and two responses of the
\* same status and location and the same body are similar both ways.
C16_ReflexiveOnly ==
    Compared =>
        /\ compared.a_a /\ compared.b_b
        /\ (compared.a_b \/ compared.b_a) => SameStatusAndLocation
        /\ (SameStatusAndLocation /\ compared.a.body = compared.b.body) =>
              (compared.a_b /\ compared.b_a)

\* C16 witness: two responses of the same status and location of which the
\* first is similar to the second and the second is not to the first.
C16_Witness ==
    /\ Compared
    /\ RatioDependsOnOrder
    /\ compared.a_b
    /\ ~compared.b_a

\* ------------------------------------------------------------------------
\* Properties of main() (Spec)
\* ------------------------------------------------------------------------

\* The (ip, service) pairs for which _find_service_vhosts returned findings.
PairsWithFindings == {e \in find_log : e.vhosts # <<>>}

\* The lines of the output file written for the pair of a log entry.
LinesOf(e) ==
    {k \in 1..Len(output_file.lines) :
        /\ output_file.lines[k].ip = e.ip
        /\ output_file.lines[k].port = e.service.port
        /\ output_file.lines[k].scheme = e.service.scheme}

\* C6: once main() has ended, the output file has as many lines as there are
\* (ip, service) pairs with a non-empty findings list: a pair without
\* findings has no line, a pair with findings has exactly one, which holds
\* its findings and its stopped flag.
C6_OutputLineCount ==
    main_pc = "exit" =>
        /\ Len(output_file.lines) = Cardinality(PairsWithFindings)
        /\ \A e \in find_log :
              IF e.vhosts = <<>>
              THEN LinesOf(e) = {}
              ELSE /\ Cardinality(LinesOf(e)) = 1
                   /\ \A k \in LinesOf(e) :
                         /\ output_file.lines[k].vhosts = e.vhosts
                         /\ output_file.lines[k].stopped = e.stopped

\* C6 witness: the file was written after a run in which one service of an
\* address had findings and another, stopped with stopped = true, had none.
C6_Witness ==
    /\ main_pc = "exit"
    /\ output_file.closed
    /\ \E e1 \in find_log, e2 \in find_log :
          /\ e1.ip = e2.ip
          /\ e1.vhosts # <<>>
          /\ e2.vhosts = <<>>
          /\ e2.stopped = TRUE

\* The results of the jobs of a stage that have returned one.
StageResults(c) ==
    {jobs[c][i].result : i \in {k \in 1..Len(jobs[c]) :
                                   /\ jobs[c][k].status = "done"
                                   /\ jobs[c][k].result # None}}

\* Stage 1 has returned to main().
Stage1Returned == main_pc \notin {"map_resolver", "wait_resolver"}

\* Nothing of a later stage has happened.
NoOutput == output_file = [lines |-> <<>>, closed |-> FALSE]
NoStage(c) == jobs[c] = <<>>

\* C7: stage 1 succeeds exactly when its results hold a record with
\* addresses and a record without; after a failed validation of stage 1 or of
\* stage 2 no job of a later stage exists, nothing is written and main() has
\* ended.
C7_PipelineEmptiness ==
    /\ Stage1Returned =>
          (resolved_domains # None <=>
              /\ \E r \in StageResults("DomainsResolver") : r.ips # <<>>
              /\ \E r \in StageResults("DomainsResolver") : r.ips = <<>>)
    /\ resolved_domains = None =>
          /\ NoStage("IpsScanner") /\ NoStage("VhostsFinder") /\ NoOutput
          /\ scanned_ips = None /\ main_vhosts = None
          /\ Stage1Returned => main_pc = "exit"
    /\ scanned_ips = None =>
          /\ NoStage("VhostsFinder") /\ NoOutput
          /\ main_vhosts = None
          /\ main_pc \in {"map_resolver", "wait_resolver", "map_scanner",
                          "wait_scanner", "exit"}

\* C7 witness: main() ended after stage 1 because every domain had a public
\* address.
C7_Witness ==
    /\ main_pc = "exit"
    /\ resolved_domains = None
    /\ StageResults("DomainsResolver") # {}
    /\ \A r \in StageResults("DomainsResolver") : r.ips # <<>>

\* The domains of stage 1 without an address, and those with one.
DomainsWithoutIps ==
    {r.domain : r \in {x \in StageResults("DomainsResolver") : x.ips = <<>>}}
DomainsWithIps ==
    {r.domain : r \in {x \in StageResults("DomainsResolver") : x.ips # <<>>}}

\* The candidate lists of the jobs of stage 3.
CandidateLists ==
    {jobs["VhostsFinder"][i].args.vhost_candidates :
        i \in 1..Len(jobs["VhostsFinder"])}

\* C8: the candidate list of every job of stage 3 holds domains of stage 1
\* without an address only, none of them twice: all of them without a cap,
\* max_vhost_candidates of them (or all, if fewer) with a cap; and so no
\* domain that has an address.
C8_CandidateList ==
    \A c \in CandidateLists :
        /\ Range(c) \subseteq DomainsWithoutIps
        /\ NoRepeat(c)
        /\ IF options.max_vhost_candidates = -1
           THEN Range(c) = DomainsWithoutIps
           ELSE Len(c) = Min(options.max_vhost_candidates,
                             Cardinality(DomainsWithoutIps))
        /\ Range(c) \cap DomainsWithIps = {}

\* C8 witness: a capped run took one of two domains without an address, with
\* a third domain that has one.
C8_Witness ==
    /\ options.max_vhost_candidates = 1
    /\ Cardinality(DomainsWithoutIps) = 2
    /\ DomainsWithIps # {}
    /\ \E c \in CandidateLists : Len(c) = 1

\* An address of 10.0.0.0/8, the private range of this world.
InPrivateRange(ip) == ip[1] = 10

\* The resolver gave the domain no public address: it raised or answered
\* with private addresses only.
NoPublicAnswer(dns) ==
    dns.raised \/ \A k \in 1..Len(dns.answers) : InPrivateRange(dns.answers[k])

\* The record of stage 1 for a domain.
RecordsOf(domain) ==
    {r \in StageResults("DomainsResolver") : r.domain = domain}

\* C9: no record of stage 1 holds a private address; the record of a domain
\* for which the resolver raised, or answered with private addresses only,
\* has empty ips; every address handed to stage 2 is a public answer for
\* some domain, and an uncapped candidate list holds every such domain.
C9_NoPrivateIps ==
    /\ \A r \in StageResults("DomainsResolver") :
          \A k \in 1..Len(r.ips) : ~InPrivateRange(r.ips[k])
    /\ \A l \in dns_log :
          /\ RecordsOf(l.domain) # {}
          /\ NoPublicAnswer(l.dns) =>
                /\ \A r \in RecordsOf(l.domain) : r.ips = <<>>
                /\ options.max_vhost_candidates = -1 =>
                      \A c \in CandidateLists : l.domain \in Range(c)
    /\ \A i \in 1..Len(jobs["IpsScanner"]) :
          /\ ~InPrivateRange(jobs["IpsScanner"][i].args)
          /\ \E l \in dns_log :
                /\ ~NoPublicAnswer(l.dns)
                /\ jobs["IpsScanner"][i].args \in Range(l.dns.answers)

\* C9 witness: stage 3 runs with a candidate whose only answer was private,
\* and with a domain that had a private answer beside its public one.
C9_Witness ==
    /\ \E l \in dns_log :
          /\ l.dns = DnsAnswers(<<PrivateIp>>)
          /\ \E c \in CandidateLists : l.domain \in Range(c)
    /\ \E l \in dns_log : l.dns = DnsAnswers(<<PrivateIp, PublicIp1>>)

\* Every job of the stage has returned.
StageDrained(c) ==
    /\ jobs[c] # <<>>
    /\ \A i \in 1..Len(jobs[c]) : jobs[c][i].status = "done"

\* The result of main() for the stage is what its jobs returned.
Collected(c, result) ==
    /\ result # None
    /\ Range(result.list) = StageResults(c)

\* C10: jobs of a stage exist only when every job of the stage before has
\* returned and main() holds their results; two jobs that run at the same
\* time are of one stage.
C10_StageOrdering ==
    /\ ~NoStage("IpsScanner") =>
          /\ StageDrained("DomainsResolver")
          /\ Collected("DomainsResolver", resolved_domains)
    /\ ~NoStage("VhostsFinder") =>
          /\ StageDrained("IpsScanner")
          /\ Collected("IpsScanner", scanned_ips)
    /\ \A c1 \in JobClasses, c2 \in JobClasses :
          (Running(jobs[c1]) # {} /\ Running(jobs[c2]) # {}) => c1 = c2

\* C10 witness: two jobs of stage 2 run at the same time, after the three
\* jobs of stage 1.
C10_Witness ==
    /\ Cardinality(Running(jobs["IpsScanner"])) = 2
    /\ Len(jobs["DomainsResolver"]) = 3

\* Pool.map of the job class has returned to main().
StageReturned(c) ==
    IF c = "DomainsResolver" THEN Stage1Returned
    ELSE IF c = "IpsScanner" THEN ~NoStage(c) /\ main_pc # "wait_scanner"
    ELSE ~NoStage(c) /\ main_pc # "wait_finder"

\* What main() got from Pool.map of the job class.
MapResult(c) ==
    IF c = "DomainsResolver" THEN resolved_domains
    ELSE IF c = "IpsScanner" THEN scanned_ips
    ELSE main_vhosts

\* validate_results of the job class accepts the results.
Accepted(c, results) ==
    IF c = "DomainsResolver" THEN DomainsResolver_validate_results(results)
    ELSE IF c = "IpsScanner" THEN IpsScanner_validate_results(results)
    ELSE VhostsFinder_validate_results(results)

\* The results of the jobs that are not None, in the order of the
\* arguments.
ResultsInOrder(c) ==
    SelectSeq([i \in 1..Len(jobs[c]) |-> jobs[c][i].result],
              LAMBDA x : x # None)

\* C18: run is called once on each element of the argument list, those not
\* yet called being queued, with at most threads_number calls in progress;
\* what Pool.map returns is the results that are not None, in order, when
\* validate_results accepts them, and None otherwise.
C18_PoolMap ==
    \A c \in JobClasses :
        /\ Cardinality(Running(jobs[c])) <= options.threads_number
        /\ \A i \in 1..Len(jobs[c]) :
              jobs[c][i].runs = IF jobs[c][i].status = "queued" THEN 0 ELSE 1
        /\ StageReturned(c) =>
              /\ \A i \in 1..Len(jobs[c]) : jobs[c][i].status = "done"
              /\ MapResult(c) = IF Accepted(c, ResultsInOrder(c))
                                THEN [list |-> ResultsInOrder(c)]
                                ELSE None

\* C18 witness: stage 1 had more jobs than threads, and stage 2 returned a
\* list from which the None of a job is dropped.
C18_Witness ==
    /\ Len(jobs["DomainsResolver"]) > options.threads_number
    /\ StageReturned("IpsScanner")
    /\ scanned_ips # None
    /\ Len(scanned_ips.list) < Len(jobs["IpsScanner"])

\* The results of the scanner jobs that have ended.
ScannerResults ==
    {jobs["IpsScanner"][i].result :
        i \in {k \in 1..Len(jobs["IpsScanner"]) :
                  jobs["IpsScanner"][k].status = "done"}}

\* C22: a scanner job returns a record with services or None, never a
\* record without services; the records of stage 2 and the arguments of
\* the stage 3 jobs all have services; and stage 2 hands main() a list,
\* and main() goes on to stage 3, exactly when a scanner job returned a
\* record.
C22_ScannedIpsHaveServices ==
    /\ \A r \in ScannerResults : r # None => Len(r.services) > 0
    /\ scanned_ips # None =>
          \A i \in 1..Len(scanned_ips.list) :
              Len(scanned_ips.list[i].services) > 0
    /\ \A i \in 1..Len(jobs["VhostsFinder"]) :
          Len(jobs["VhostsFinder"][i].args.services) > 0
    /\ StageReturned("IpsScanner") =>
          /\ scanned_ips # None <=> ScannerResults # {None}
          /\ scanned_ips = None => main_pc = "exit" /\ NoStage("VhostsFinder")
          /\ scanned_ips # None =>
                main_pc = "map_finder" \/ ~NoStage("VhostsFinder")

\* C22 witness: stage 3 runs on the records of stage 2 after a scanner job
\* found no service at its IP.
C22_Witness ==
    /\ ~NoStage("VhostsFinder")
    /\ None \in ScannerResults
    /\ Len(scanned_ips.list) >= 1

\* C14: the fields of the progress tracker are written by reset(total) and
\* by done() with the lock of the tracker held.
C14_TrackerWritesUnderLock ==
    tracker.last_write # None => tracker.last_write.lock_held

\* ------------------------------------------------------------------------
\* Properties of GetAddrInfoWrapper and get_response (SpecNames)
\* ------------------------------------------------------------------------

\* The threads that got an answer of getaddrinfo for their last request.
Answered == {w \in Tids : threads[w].last # None
                           /\ threads[w].last.answer # None}

\* The answer is an override of handler: a list of endpoints.
IsOverride(answer) == "list" \in DOMAIN answer

\* The address an override sends the thread to.
OverrideIp(answer) == answer.list[1].sockaddr[1]

\* C11: an override a thread gets for a lookup comes from what the thread
\* itself stored by its last set_names: the thread has stored an entry, the
\* name is one of its names and the address is its address, whatever the
\* other threads have stored.
C11_NameInjectionIsolation ==
    \A w \in Answered :
        IsOverride(threads[w].last.answer) =>
            /\ threads[w].own # None
            /\ threads[w].last.vhost \in Range(threads[w].own.names)
            /\ OverrideIp(threads[w].last.answer) = threads[w].own.ip

\* C11 witness: a thread got its own address for a name that another
\* thread has stored with another address.
C11_Witness ==
    \E w \in Answered, v \in Tids :
        /\ v # w
        /\ IsOverride(threads[w].last.answer)
        /\ wrapper.data[v] # None
        /\ threads[w].last.vhost \in Range(wrapper.data[v].names)
        /\ wrapper.data[v].ip # threads[w].own.ip
        /\ threads[v].own = wrapper.data[v]

\* C12: a lookup of (host, port) by a thread after its set_names(names, ip)
\* returns the single endpoint (ip, port) when host is in names, and the
\* answer of the system's resolver otherwise, also for a name of the
\* setting that set_names replaced.
C12_NameInjectionLookup ==
    \A w \in Answered :
        IF threads[w].last.vhost \in Range(threads[w].own.names)
        THEN /\ IsOverride(threads[w].last.answer)
             /\ Len(threads[w].last.answer.list) = 1
             /\ threads[w].last.answer.list[1].sockaddr
                   = <<threads[w].own.ip, SniService.port>>
             /\ threads[w].last.answer.list[1].family = "AF_INET"
             /\ threads[w].last.answer.list[1].type = "SOCK_STREAM"
             /\ threads[w].last.answer.list[1].proto = "IPPROTO_TCP"
        ELSE threads[w].last.answer
                = [system |-> <<threads[w].last.vhost, SniService.port>>]

\* C12 witness: a name of the replaced setting went to the system's
\* resolver.
C12_Witness ==
    \E w \in Answered :
        /\ threads[w].previous # None
        /\ threads[w].last.vhost \in Range(threads[w].previous.names)
        /\ threads[w].last.vhost \notin Range(threads[w].own.names)
        /\ ~IsOverride(threads[w].last.answer)

\* The requests made so far: the last one of each thread and the one it is
\* in the middle of.
Requests ==
    {threads[w].last : w \in {x \in Tids : threads[x].last # None}}
        \cup {threads[w].request :
                 w \in {x \in Tids : threads[x].request # None}}

\* The thread that made the request.
RequestIps(r) ==
    {threads[w].ip : w \in {x \in Tids : r \in {threads[x].last,
                                                  threads[x].request}}}

\* C17: with SNI enabled the URL of every request holds the name asked for,
\* which is the server name of the handshake, and no Host header is
\* passed; with SNI disabled the URL holds the IP, the Host header is the
\* name asked for and the handshake has no server name.
C17_SniOrHostHeader ==
    \A r \in Requests :
        IF options.sni_enabled
        THEN /\ r.request.host = [name |-> r.vhost]
             /\ r.server_name = [name |-> r.vhost]
             /\ r.request.headers = {}
        ELSE /\ "ip" \in DOMAIN r.request.host
             /\ r.request.host.ip \in RequestIps(r)
             /\ r.request.headers = {<<"Host", r.vhost>>}
             /\ r.server_name = None

\* C17 witness: with SNI enabled, a request for a candidate and one for a
\* random label, each answered with the address of its thread.
C17_Witness ==
    /\ options.sni_enabled
    /\ \E w \in Answered, v \in Answered :
          /\ threads[w].last.vhost = random_vhost1
          /\ threads[v].last.vhost \in Range(threads[v].vhost_candidates)
          /\ IsOverride(threads[w].last.answer)
          /\ IsOverride(threads[v].last.answer)

\* ------------------------------------------------------------------------
\* Properties of GetAddrInfoWrapper.register (SpecRegister)
\* ------------------------------------------------------------------------

\* C13: after any number of calls of register() the state is the one after
\* the first: socket.getaddrinfo is handler, the saved _original_method is
\* the system's resolver, and a lookup of a name that is not overridden
\* ends with the answer of the system's resolver.
C13_RegisterIdempotent ==
    wrapper.register_calls >= 1 =>
        /\ wrapper.getaddrinfo = "handler"
        /\ wrapper.original_method = "system"
        /\ \A w \in Answered :
              ~IsOverride(threads[w].last.answer) =>
                  threads[w].last.answer
                      = [system |-> <<threads[w].last.vhost,
                                      SniService.port>>]

\* ------------------------------------------------------------------------
\* Properties of IpsScanner.get_result (SpecScan)
\* ------------------------------------------------------------------------

\* The k-th call of the scanner is a GET, a connect otherwise.
IsGet(k) == scan.events[k].scheme # "tcp"

\* The k-th call went to the port and succeeded.
SucceededAt(k, port, scheme) ==
    /\ scan.events[k].port = port
    /\ scan.events[k].scheme = scheme
    /\ scan.events[k].ok

\* C21: a GET over https comes right after the successful connect to its
\* port and a GET over http right after the https GET to its port raised,
\* so no GET follows a refused connect; a recorded service has a connect
\* to its port that succeeded and a GET over its scheme that answered, and
\* no GET to its port before that one answered.
C21_ServiceDetection ==
    /\ \A k \in 1..Len(scan.events) :
          IsGet(k) =>
              /\ k > 1
              /\ scan.events[k - 1].port = scan.events[k].port
              /\ IF scan.events[k].scheme = "https"
                 THEN scan.events[k - 1].scheme = "tcp"
                      /\ scan.events[k - 1].ok
                 ELSE scan.events[k - 1].scheme = "https"
                      /\ ~scan.events[k - 1].ok
    /\ \A i \in 1..Len(scan.services) :
          \E k \in 1..Len(scan.events) :
              /\ SucceededAt(k, scan.services[i].port,
                             scan.services[i].scheme)
              /\ \E j \in 1..(k - 1) :
                    SucceededAt(j, scan.services[i].port, "tcp")
              /\ \A j \in 1..(k - 1) :
                    (IsGet(j) /\ scan.events[j].port = scan.services[i].port)
                        => ~scan.events[j].ok

\* C21 witness: the scanner has returned after a port that refused the
\* connection and a port recorded with http after its https GET raised.
C21_Witness ==
    /\ scan.pc = "returned"
    /\ \E k \in 1..Len(scan.events) :
          ~IsGet(k) /\ ~scan.events[k].ok
    /\ \E i \in 1..Len(scan.services) : scan.services[i].scheme = "http"

\* ------------------------------------------------------------------------
\* Properties of ProgressTracker under Pool.map (SpecProgress)
\* ------------------------------------------------------------------------

\* The jobs that have called done() and stored the counter.
Counted ==
    {i \in 1..Len(pool.jobs) : pool.pc[i] \in {"stored", "returned"}}

\* Every job of the pool has returned.
Drained == all_jobs_done(pool.jobs)

\* C23: a job calls done() once before it returns, also when it returns
\* None, and not more than once; the done counter is the number of jobs
\* that have stored it, so no increment is lost; it is never above the
\* total set by reset; and when every job has returned it is the total.
C23_ProgressAccounting ==
    /\ \A i \in 1..Len(pool.jobs) :
          /\ pool.done_calls[i] <= 1
          /\ pool.jobs[i].status = "done" => pool.done_calls[i] = 1
    /\ tracker.done_counter = Cardinality(Counted)
    /\ tracker.done_counter <= tracker.total
    /\ tracker.total = Len(pool.jobs)
    /\ Drained => tracker.done_counter = tracker.total

\* C23 witness: a job that returned None is counted, a second one is
\* between the load and the store of the counter, and a third one waits
\* for the lock.
C23_Witness ==
    \E i, j, k \in 1..Len(pool.jobs) :
        /\ pool.jobs[i].status = "done" /\ pool.jobs[i].result = None
        /\ pool.pc[j] = "loaded"
        /\ pool.pc[k] = "done_call"

====
